---- MODULE Spec2Model ----
(***************************************************************************)
(* Model of the BDL parsing core (src/src/lib.rs, src/src/parser/mod.rs).  *)
(* A string is a sequence of one-character strings, a text is the sequence *)
(* of its lines (what str::lines() yields), a HashMap is a function whose  *)
(* domain is its key set and a HashSet is a set.                           *)
(***************************************************************************)
EXTENDS Integers, Sequences, FiniteSets, TLC

VARIABLES pc, content, dependencies, arg, doc, result

vars == <<pc, content, dependencies, arg, doc, result>>

\* ------------------------------------------------------------------------
\* Bounds of the model
\* ------------------------------------------------------------------------
MaxLines == 4

MaxDeps == 3

MaxValueLen == 3

\* ------------------------------------------------------------------------
\* String primitives of the standard library, as the parser uses them
\* ------------------------------------------------------------------------
IsWhitespace(c) == c \in {" ", "\t"}

RECURSIVE TrimStart(_)
TrimStart(s) ==
    IF s = <<>> \/ ~IsWhitespace(Head(s)) THEN s ELSE TrimStart(Tail(s))

RECURSIVE TrimEnd(_)
TrimEnd(s) ==
    IF s = <<>> \/ ~IsWhitespace(s[Len(s)]) THEN s
    ELSE TrimEnd(SubSeq(s, 1, Len(s) - 1))

Trim(s) == TrimEnd(TrimStart(s))

RECURSIVE TrimStartMatches(_, _)
TrimStartMatches(s, c) ==
    IF s = <<>> \/ Head(s) # c THEN s ELSE TrimStartMatches(Tail(s), c)

RECURSIVE TrimEndMatches(_, _)
TrimEndMatches(s, c) ==
    IF s = <<>> \/ s[Len(s)] # c THEN s
    ELSE TrimEndMatches(SubSeq(s, 1, Len(s) - 1), c)

TrimMatches(s, c) == TrimEndMatches(TrimStartMatches(s, c), c)

StartsWith(s, p) == Len(s) >= Len(p) /\ SubSeq(s, 1, Len(p)) = p

EndsWith(s, p) ==
    Len(s) >= Len(p) /\ SubSeq(s, Len(s) - Len(p) + 1, Len(s)) = p

Contains(s, c) == \E i \in 1..Len(s) : s[i] = c

\* str::split(c): the pieces between the occurrences of c, in order
RECURSIVE Split(_, _)
Split(s, c) ==
    IF ~Contains(s, c) THEN <<s>>
    ELSE LET i == CHOOSE k \in 1..Len(s) :
                      s[k] = c /\ \A j \in 1..(k - 1) : s[j] # c
         IN  <<SubSeq(s, 1, i - 1)>> \o Split(SubSeq(s, i + 1, Len(s)), c)

\* str::split_once(c): the text before and after the first c
SplitOnce(s, c) ==
    LET i == CHOOSE k \in 1..Len(s) :
                 s[k] = c /\ \A j \in 1..(k - 1) : s[j] # c
    IN  <<SubSeq(s, 1, i - 1), SubSeq(s, i + 1, Len(s))>>

\* [String]::join(sep)
RECURSIVE Join(_, _)
Join(parts, sep) ==
    IF parts = <<>> THEN <<>>
    ELSE IF Len(parts) = 1 THEN parts[1]
    ELSE parts[1] \o sep \o Join(Tail(parts), sep)

UpperCase ==
    << "A", "B", "C", "D", "E", "F", "G", "H", "I", "J", "K", "L", "M",
       "N", "O", "P", "Q", "R", "S", "T", "U", "V", "W", "X", "Y", "Z" >>

LowerCase ==
    << "a", "b", "c", "d", "e", "f", "g", "h", "i", "j", "k", "l", "m",
       "n", "o", "p", "q", "r", "s", "t", "u", "v", "w", "x", "y", "z" >>

\* char::to_lowercase on the characters of the model's texts
ToLowerChar(c) ==
    IF \E k \in 1..26 : UpperCase[k] = c
    THEN LowerCase[CHOOSE k \in 1..26 : UpperCase[k] = c]
    ELSE c

ToLowercase(s) == [i \in 1..Len(s) |-> ToLowerChar(s[i])]

\* ------------------------------------------------------------------------
\* Values of the result type Result<T, BdlError>
\* ------------------------------------------------------------------------
NoResult == [kind |-> "none"]

Ok(v) == [kind |-> "ok", value |-> v]

Err(variant, text, detail) ==
    [kind |-> "err", variant |-> variant, text |-> text, detail |-> detail]

Panic == [kind |-> "panic"]

\* HashMap::insert
MapInsert(m, k, v) ==
    [x \in (DOMAIN m) \cup {k} |-> IF x = k THEN v ELSE m[x]]

EmptyMap == <<>>

\* ------------------------------------------------------------------------
\* Dependency validation
\* ------------------------------------------------------------------------
DotBdl == <<".", "b", "d", "l">>

validate_dependency_file(f) ==
    IF ~EndsWith(f, DotBdl)
    THEN Err("DependencyError", "Invalid dependency file extension: ", f)
    ELSE Ok(<<>>)

\* validate_dependencies with the duplicate test dropped (silent dedup)
RECURSIVE validate_dependencies_loop_dedup(_, _)
validate_dependencies_loop_dedup(validated, deps) ==
    IF deps = <<>> THEN Ok(validated)
    ELSE LET dep == Head(deps)
             chk == validate_dependency_file(dep)
         IN  IF chk.kind = "err" THEN chk
             ELSE validate_dependencies_loop_dedup(validated \cup {dep},
                                                   Tail(deps))

RECURSIVE validate_dependencies_loop(_, _)
validate_dependencies_loop(validated, deps) ==
    IF deps = <<>> THEN Ok(validated)
    ELSE LET dep == Head(deps)
             chk == validate_dependency_file(dep)
         IN  IF chk.kind = "err" THEN chk
             ELSE IF dep \in validated
             THEN Err("DependencyError", "Duplicate dependency: ", dep)
             ELSE validate_dependencies_loop(validated \cup {dep}, Tail(deps))

validate_dependencies(deps) == validate_dependencies_loop({}, deps)

\* validate_file_transfer with the membership test before the extension test
validate_file_transfer_member_first(f, deps) ==
    IF f \in deps THEN Ok(<<>>)
    ELSE LET chk == validate_dependency_file(f)
         IN  IF chk.kind = "err" THEN chk
             ELSE Err("DependencyError", "Undeclared dependency: ", f)

validate_file_transfer(f, deps) ==
    LET chk == validate_dependency_file(f)
    IN  IF chk.kind = "err" THEN chk
        ELSE IF f \notin deps
        THEN Err("DependencyError", "Undeclared dependency: ", f)
        ELSE Ok(<<>>)

\* ------------------------------------------------------------------------
\* Document assembly (src/src/lib.rs)
\* ------------------------------------------------------------------------
Text(s) == [type |-> "Text", text |-> s]

Variable(name) == [type |-> "Variable", name |-> name]

FunctionCall(name, result_vars) ==
    [type |-> "FunctionCall", name |-> name, result_vars |-> result_vars]

\* BdlNode::new
BdlNode_new(name) == [name |-> name, content |-> <<>>, options |-> <<>>]

\* BdlNode::add_content
add_content(node, element) ==
    [node EXCEPT !.content = Append(node.content, element)]

\* BdlDocument::new leaves the node mapping empty
BdlDocument_new == EmptyMap

\* add_node without the contains_key test: an existing entry is overwritten
add_node_overwrite(nodes, node) ==
    [nodes  |-> MapInsert(nodes, node.name, node),
     result |-> Ok(<<>>)]

\* BdlDocument::add_node: the new node mapping and the returned Result
add_node(nodes, node) ==
    IF node.name \in DOMAIN nodes
    THEN [nodes  |-> nodes,
          result |-> Err("NodeError", "Node already exists: ", node.name)]
    ELSE [nodes  |-> MapInsert(nodes, node.name, node),
          result |-> Ok(<<>>)]

\* ------------------------------------------------------------------------
\* Node parsing (src/src/parser/mod.rs, parse_nodes and parse_option)
\* ------------------------------------------------------------------------
None == [some |-> FALSE]

Some(v) == [some |-> TRUE, value |-> v]

\* parse_option is a stub: unimplemented!() aborts the call
parse_option(line, deps) == Panic

\* the locals of parse_nodes before the loop; ret is the early return
parse_nodes_locals ==
    [nodes |-> EmptyMap, current_node |-> None, current_content |-> <<>>,
     ret |-> NoResult]

\* `if let Some(node) = current_node.take() { nodes.insert(..) }`
save_current_node(st) ==
    IF st.current_node.some
    THEN MapInsert(st.nodes, st.current_node.value.name, st.current_node.value)
    ELSE st.nodes

\* node start with the duplicate test made before the previous node is saved
node_start_test_first(st, line) ==
    LET name == Trim(SubSeq(line, 2, Len(line)))
    IN  IF name \in DOMAIN st.nodes
        THEN [st EXCEPT !.nodes = save_current_node(st),
                        !.current_node = None,
                        !.ret = Err("NodeError", "Duplicate node name: ", name)]
        ELSE [nodes |-> save_current_node(st),
              current_node |-> Some(BdlNode_new(name)),
              current_content |-> <<>>,
              ret |-> NoResult]

\* a line that starts with '@': save the open node, then open the next one
node_start(st, line) ==
    LET nodes1 == save_current_node(st)
        name   == Trim(SubSeq(line, 2, Len(line)))
    IN  IF name \in DOMAIN nodes1
        THEN [st EXCEPT !.nodes = nodes1,
                        !.current_node = None,
                        !.ret = Err("NodeError", "Duplicate node name: ", name)]
        ELSE [nodes |-> nodes1,
              current_node |-> Some(BdlNode_new(name)),
              current_content |-> <<>>,
              ret |-> NoResult]

\* a line inside a node that starts with '{' or '?{'
option_line(st, line, deps) ==
    LET option == parse_option(line, deps)
    IN  IF option.kind # "ok" THEN [st EXCEPT !.ret = option]
        ELSE [st EXCEPT !.current_node.value.options =
                            Append(@, option.value)]

\* any other line inside a node: pushed to current_content, which is then
\* joined into one Text element and cleared
content_line(st, line) ==
    LET pushed == Append(st.current_content, line)
    IN  IF pushed # <<>>
        THEN [st EXCEPT !.current_node.value.content =
                            Append(@, Text(Join(pushed, <<"\n">>))),
                        !.current_content = <<>>]
        ELSE [st EXCEPT !.current_content = pushed]

\* one iteration of the loop over self.content.lines()
parse_nodes_step(st, raw, deps) ==
    LET line == Trim(raw)
    IN  IF line = <<>> \/ StartsWith(line, <<"#">>) THEN st
        ELSE IF StartsWith(line, <<"@">>) THEN node_start(st, line)
        ELSE IF st.current_node.some
        THEN IF StartsWith(line, <<"{">>) \/ StartsWith(line, <<"?", "{">>)
             THEN option_line(st, line, deps)
             ELSE content_line(st, line)
        ELSE st

\* the loop without the save of the last node after it
RECURSIVE parse_nodes_loop_drop_last(_, _, _)
parse_nodes_loop_drop_last(st, lines, deps) ==
    IF st.ret.kind # "none" THEN st.ret
    ELSE IF lines = <<>> THEN Ok(st.nodes)
    ELSE parse_nodes_loop_drop_last(parse_nodes_step(st, Head(lines), deps),
                                    Tail(lines), deps)

RECURSIVE parse_nodes_loop(_, _, _)
parse_nodes_loop(st, lines, deps) ==
    IF st.ret.kind # "none" THEN st.ret
    ELSE IF lines = <<>> THEN Ok(save_current_node(st))
    ELSE parse_nodes_loop(parse_nodes_step(st, Head(lines), deps),
                          Tail(lines), deps)

parse_nodes(text, deps) == parse_nodes_loop(parse_nodes_locals, text, deps)

\* ------------------------------------------------------------------------
\* Variable blocks (src/src/parser/mod.rs, parse_variables and
\* parse_variable_line)
\* ------------------------------------------------------------------------
String(s) == [type |-> "String", text |-> s]

Number(n) == [type |-> "Number", number |-> n]

Boolean(b) == [type |-> "Boolean", bool |-> b]

Empty == [type |-> "Empty"]

Digits == <<"0", "1", "2", "3", "4", "5", "6", "7", "8", "9">>

IsDigit(c) == \E d \in 1..10 : Digits[d] = c

DigitValue(c) == (CHOOSE d \in 1..10 : Digits[d] = c) - 1

RECURSIVE DigitPrefixLen(_)
DigitPrefixLen(s) ==
    IF s = <<>> \/ ~IsDigit(Head(s)) THEN 0 ELSE 1 + DigitPrefixLen(Tail(s))

RECURSIVE DigitsValue(_)
DigitsValue(s) ==
    IF s = <<>> THEN 0
    ELSE 10 * DigitsValue(SubSeq(s, 1, Len(s) - 1)) + DigitValue(s[Len(s)])

\* a decimal mantissa * 10^exp with the mantissa's trailing zeros removed
RECURSIVE Decimal(_, _, _)
Decimal(neg, mant, exp) ==
    IF mant = 0 THEN [class |-> "finite", neg |-> neg, mant |-> 0, exp |-> 0]
    ELSE IF mant % 10 = 0 THEN Decimal(neg, mant \div 10, exp + 1)
    ELSE [class |-> "finite", neg |-> neg, mant |-> mant, exp |-> exp]

LitInf == <<"i", "n", "f">>

LitInfinity == <<"i", "n", "f", "i", "n", "i", "t", "y">>

LitNan == <<"n", "a", "n">>

\* str::parse::<f64>():
\*   Float  ::= Sign? ( 'inf' | 'infinity' | 'nan' | Number )
\*   Number ::= ( Digit+ | Digit+ '.' Digit* | Digit* '.' Digit+ ) Exp?
\*   Exp    ::= 'e' Sign? Digit+          (letters in any case)
\* The value is kept as an exact decimal, which is what the f64 holds for
\* the short literals of the model.
parse_f64(s) ==
    LET signed   == s # <<>> /\ Head(s) \in {"+", "-"}
        neg      == s # <<>> /\ Head(s) = "-"
        body     == IF signed THEN Tail(s) ELSE s
        low      == ToLowercase(body)
        n1       == DigitPrefixLen(body)
        rest1    == SubSeq(body, n1 + 1, Len(body))
        hasDot   == rest1 # <<>> /\ Head(rest1) = "."
        rest2    == IF hasDot THEN Tail(rest1) ELSE rest1
        n2       == IF hasDot THEN DigitPrefixLen(rest2) ELSE 0
        rest3    == SubSeq(rest2, n2 + 1, Len(rest2))
        hasExp   == rest3 # <<>> /\ Head(rest3) \in {"e", "E"}
        rest4    == IF hasExp THEN Tail(rest3) ELSE rest3
        expSign  == rest4 # <<>> /\ Head(rest4) \in {"+", "-"}
        expNeg   == rest4 # <<>> /\ Head(rest4) = "-"
        rest5    == IF hasExp /\ expSign THEN Tail(rest4) ELSE rest4
        n3       == DigitPrefixLen(rest5)
        expOk    == IF hasExp THEN n3 >= 1 /\ n3 = Len(rest5)
                    ELSE rest3 = <<>>
        expVal   == IF hasExp
                    THEN (IF expNeg THEN 0 - 1 ELSE 1) * DigitsValue(rest5)
                    ELSE 0
        mant     == DigitsValue(SubSeq(body, 1, n1) \o SubSeq(rest2, 1, n2))
    IN  IF low = LitInf \/ low = LitInfinity
        THEN Some([class |-> "inf", neg |-> neg, mant |-> 0, exp |-> 0])
        ELSE IF low = LitNan
        THEN Some([class |-> "nan", neg |-> neg, mant |-> 0, exp |-> 0])
        ELSE IF n1 + n2 >= 1 /\ expOk
        THEN Some(Decimal(neg, mant, expVal - n2))
        ELSE None

LitTrue == <<"t", "r", "u", "e">>

LitFalse == <<"f", "a", "l", "s", "e">>

\* parse_variable_line: Ok(None), Ok(Some(<<key, value>>)) or ParseError
parse_variable_line(line) ==
    IF Trim(line) = <<>> \/ Trim(line) = <<"}">> THEN Ok(None)
    ELSE
    LET parts == Split(line, ":")
    IN  IF Len(parts) # 2
        THEN Err("ParseError", "Invalid variable declaration: ", line)
        ELSE
        LET key   == Trim(parts[1])
            value == Trim(TrimMatches(Trim(parts[2]), ","))
        IN  IF StartsWith(value, <<"\"">>) /\ EndsWith(value, <<"\"">>)
            THEN Ok(Some(<<key, String(TrimMatches(value, "\""))>>))
            ELSE IF value = LitTrue
            THEN Ok(Some(<<key, Boolean(TRUE)>>))
            ELSE IF value = LitFalse
            THEN Ok(Some(<<key, Boolean(FALSE)>>))
            ELSE IF parse_f64(value).some
            THEN Ok(Some(<<key, Number(parse_f64(value).value)>>))
            ELSE IF value = <<>> \/ value = <<"{", "}">>
            THEN Ok(Some(<<key, Empty>>))
            ELSE Err("ParseError", "Invalid value format: ", value)

GlobalVarsOpener ==
    << "$", "g", "l", "o", "b", "a", "l", "_", "v", "a", "r", "s", ":" >>

LocalVarsOpener ==
    << "$", "l", "o", "c", "a", "l", "_", "v", "a", "r", "s", ":" >>

\* the locals of parse_variables before the loop; current_block names the
\* mapping the mutable reference points to; ret is the early return
parse_variables_locals ==
    [global_vars |-> None, local_vars |-> EmptyMap, in_vars_block |-> FALSE,
     current_block |-> "none", ret |-> NoResult]

\* a `$global_vars:` line that keeps the mapping of an earlier block
global_block_start_merge(st) ==
    [st EXCEPT !.global_vars = IF @.some THEN @ ELSE Some(EmptyMap),
               !.current_block = "global",
               !.in_vars_block = TRUE]

\* a line that starts with `$global_vars:`
global_block_start(st) ==
    IF st.global_vars.some
    THEN [st EXCEPT !.ret = Err("ParseError",
                                "Duplicate global variables declaration",
                                <<>>)]
    ELSE [st EXCEPT !.global_vars = Some(EmptyMap),
                    !.current_block = "global",
                    !.in_vars_block = TRUE]

\* a `$local_vars:` line that leaves an open block as the current one
local_block_start_keep_block(st) ==
    [st EXCEPT !.current_block = IF @ = "none" THEN "local" ELSE @,
               !.in_vars_block = TRUE]

\* a line that starts with `$local_vars:`
local_block_start(st) ==
    [st EXCEPT !.current_block = "local", !.in_vars_block = TRUE]

\* a line inside a block
\* entries that keep the first value declared for a key
block_line_first_wins(st, line) ==
    IF line = <<"}">>
    THEN [st EXCEPT !.in_vars_block = FALSE, !.current_block = "none"]
    ELSE IF st.current_block = "none" THEN st
    ELSE LET r == parse_variable_line(line)
         IN  IF r.kind = "err" THEN [st EXCEPT !.ret = r]
             ELSE IF ~r.value.some THEN st
             ELSE IF st.current_block = "global"
             THEN [st EXCEPT !.global_vars.value =
                       MapInsert(@, r.value.value[1], r.value.value[2])]
             ELSE IF r.value.value[1] \in DOMAIN st.local_vars THEN st
             ELSE [st EXCEPT !.local_vars =
                       MapInsert(@, r.value.value[1], r.value.value[2])]

block_line(st, line) ==
    IF line = <<"}">>
    THEN [st EXCEPT !.in_vars_block = FALSE, !.current_block = "none"]
    ELSE IF st.current_block = "none" THEN st
    ELSE LET r == parse_variable_line(line)
         IN  IF r.kind = "err" THEN [st EXCEPT !.ret = r]
             ELSE IF ~r.value.some THEN st
             ELSE IF st.current_block = "global"
             THEN [st EXCEPT !.global_vars.value =
                       MapInsert(@, r.value.value[1], r.value.value[2])]
             ELSE [st EXCEPT !.local_vars =
                       MapInsert(@, r.value.value[1], r.value.value[2])]

\* one iteration of the loop over self.content.lines()
parse_variables_step(st, raw) ==
    LET line == Trim(raw)
    IN  IF \/ line = <<>>
           \/ (StartsWith(line, <<"#">>) /\ ~Contains(line, "$"))
        THEN st
        ELSE IF StartsWith(line, GlobalVarsOpener) THEN global_block_start(st)
        ELSE IF StartsWith(line, LocalVarsOpener) THEN local_block_start(st)
        ELSE IF st.in_vars_block THEN block_line(st, line)
        ELSE st

RECURSIVE parse_variables_loop(_, _)
parse_variables_loop(st, lines) ==
    IF st.ret.kind # "none" THEN st.ret
    ELSE IF lines = <<>>
    THEN Ok([global_vars |-> st.global_vars, local_vars |-> st.local_vars])
    ELSE parse_variables_loop(parse_variables_step(st, Head(lines)),
                              Tail(lines))

parse_variables(text) == parse_variables_loop(parse_variables_locals, text)

\* ------------------------------------------------------------------------
\* Metadata header (src/src/parser/mod.rs, parse_metadata)
\* ------------------------------------------------------------------------
\* BdlMetadata::default()
BdlMetadata_default ==
    [topic |-> None, description |-> None, author |-> None,
     version |-> None, required |-> None]

KeyTopic == <<"t", "o", "p", "i", "c">>

KeyDescription == <<"d", "e", "s", "c", "r", "i", "p", "t", "i", "o", "n">>

KeyAuthor == <<"a", "u", "t", "h", "o", "r">>

KeyVersion == <<"v", "e", "r", "s", "i", "o", "n">>

KeyRequired == <<"r", "e", "q", "u", "i", "r", "e", "d">>

\* the header scan with a blank line skipped instead of ending the scan
stops_scan_at_content_only(line) ==
    ~StartsWith(line, <<"#">>) /\ line # <<>>

\* `if !line.starts_with('#') || line.is_empty() { break; }`
stops_scan(line) == ~StartsWith(line, <<"#">>) \/ line = <<>>

\* the required list without its empty segments
required_list_skip_empty(value) ==
    LET parts == Split(value, ",")
    IN  SelectSeq([k \in 1..Len(parts) |-> Trim(parts[k])],
                  LAMBDA s : s # <<>>)

\* value.split(',').map(|s| s.trim().to_string()).collect()
required_list(value) ==
    LET parts == Split(value, ",")
    IN  [k \in 1..Len(parts) |-> Trim(parts[k])]

\* a `#` line split at every colon, the value being the last piece
metadata_line_last_colon(metadata, line) ==
    LET stripped == Trim(TrimStartMatches(line, "#"))
    IN  IF ~Contains(stripped, ":") THEN metadata
        ELSE
        LET kv    == Split(stripped, ":")
            key   == ToLowercase(Trim(kv[1]))
            value == Trim(kv[Len(kv)])
        IN  IF key = KeyTopic
            THEN [metadata EXCEPT !.topic = Some(value)]
            ELSE IF key = KeyDescription
            THEN [metadata EXCEPT !.description = Some(value)]
            ELSE IF key = KeyAuthor
            THEN [metadata EXCEPT !.author = Some(value)]
            ELSE IF key = KeyVersion
            THEN [metadata EXCEPT !.version = Some(value)]
            ELSE IF key = KeyRequired
            THEN [metadata EXCEPT !.required = Some(required_list(value))]
            ELSE metadata

\* a `#` line that contains a colon
metadata_line(metadata, line) ==
    LET stripped == Trim(TrimStartMatches(line, "#"))
    IN  IF ~Contains(stripped, ":") THEN metadata
        ELSE
        LET kv    == SplitOnce(stripped, ":")
            key   == ToLowercase(Trim(kv[1]))
            value == Trim(kv[2])
        IN  IF key = KeyTopic
            THEN [metadata EXCEPT !.topic = Some(value)]
            ELSE IF key = KeyDescription
            THEN [metadata EXCEPT !.description = Some(value)]
            ELSE IF key = KeyAuthor
            THEN [metadata EXCEPT !.author = Some(value)]
            ELSE IF key = KeyVersion
            THEN [metadata EXCEPT !.version = Some(value)]
            ELSE IF key = KeyRequired
            THEN [metadata EXCEPT !.required = Some(required_list(value))]
            ELSE metadata

\* the header loop with `continue` in place of `break`: a line that stops
\* the scan is passed over and the scan goes on
RECURSIVE parse_metadata_loop_no_break(_, _)
parse_metadata_loop_no_break(metadata, lines) ==
    IF lines = <<>> THEN Ok(metadata)
    ELSE LET line == Trim(Head(lines))
         IN  IF stops_scan(line) \/ ~Contains(line, ":")
             THEN parse_metadata_loop_no_break(metadata, Tail(lines))
             ELSE parse_metadata_loop_no_break(metadata_line(metadata, line),
                                               Tail(lines))

\* the loop over self.content.lines(), left at the first line that stops
\* the scan
RECURSIVE parse_metadata_loop(_, _)
parse_metadata_loop(metadata, lines) ==
    IF lines = <<>> THEN Ok(metadata)
    ELSE LET line == Trim(Head(lines))
         IN  IF stops_scan(line) THEN Ok(metadata)
             ELSE IF ~Contains(line, ":")
             THEN parse_metadata_loop(metadata, Tail(lines))
             ELSE parse_metadata_loop(metadata_line(metadata, line),
                                      Tail(lines))

parse_metadata(text) == parse_metadata_loop(BdlMetadata_default, text)

\* ------------------------------------------------------------------------
\* Inputs
\* ------------------------------------------------------------------------
SeqsUpTo(S, n) == UNION {[1..k -> S] : k \in 0..n}

DepNames ==
    { <<"a", ".", "b", "d", "l">>, <<"b", ".", "b", "d", "l">>,
      <<"a", ".", "t", "x", "t">>, <<".", "b", "d", "l">>,
      <<"a", "b", "d", "l">> }

DocNodeNames == { <<"a">>, <<"b">>, <<"c">>, <<>> }

DocNodes ==
    {BdlNode_new(n) : n \in DocNodeNames} \cup
    {add_content(BdlNode_new(n), Text(<<"H", "i">>)) : n \in DocNodeNames}

\* lines of node texts
LnNodeA == <<"@", "a">>

LnNodeAPadded == <<" ", "@", " ", "a", " ">>

LnNodeB == <<"@", "b">>

LnTextX == <<"x">>

LnTextY == <<"y", " ">>

LnBlank == <<>>

LnComment == <<"#", "c">>

LnOption == <<"{", "k", ":", " ", "@", "b", "}">>

LnCondOption ==
    << "?", "{", "v", "}", "{", "k", ":", " ", "e", "x", "i", "t", "}" >>

LnTopic ==
    << "#", " ", "T", "o", "p", "i", "c", ":", " ", "G", "r", "e", "e",
       "t", "i", "n", "g" >>

LnRequired ==
    << "#", " ", "R", "e", "q", "u", "i", "r", "e", "d", ":", " ", "s",
       "h", "o", "p", ".", "b", "d", "l" >>

LnNodeStart == <<"@", "s", "t", "a", "r", "t">>

LnHello == <<"H", "e", "l", "l", "o", " ", "t", "h", "e", "r", "e", ".">>

LnContinue ==
    << "{", "c", "o", "n", "t", "i", "n", "u", "e", ":", " ", "@", "e",
       "n", "d", "}" >>

LnNodeEnd == <<"@", "e", "n", "d">>

LnGoodbye == <<"G", "o", "o", "d", "b", "y", "e", ".">>

ShopBdl == <<"s", "h", "o", "p", ".", "b", "d", "l">>

NodeLines ==
    { LnNodeA, LnNodeAPadded, LnNodeB, LnTextX, LnTextY, LnBlank, LnComment,
      LnOption, LnCondOption }

\* the end-to-end example of the specification
EndToEndExample ==
    << LnTopic, LnRequired, LnBlank, LnNodeStart, LnHello, LnContinue,
       LnBlank, LnNodeEnd, LnGoodbye >>

\* lines of variable texts
LnGlobalOpen ==
    << "$", "g", "l", "o", "b", "a", "l", "_", "v", "a", "r", "s", ":",
       " ", "{" >>

LnGlobalOpenBare ==
    << " ", "$", "g", "l", "o", "b", "a", "l", "_", "v", "a", "r", "s",
       ":" >>

LnLocalOpen ==
    << "$", "l", "o", "c", "a", "l", "_", "v", "a", "r", "s", ":", " ",
       "{" >>

LnClose == <<"}">>

LnVarX == <<"x", ":", " ", "1", ",">>

LnVarY == <<"y", ":", " ", "\"", "a", "\"">>

LnVarBad == <<"x", ":", " ", "n", "o">>

VarLines ==
    { LnGlobalOpen, LnGlobalOpenBare, LnLocalOpen, LnClose, LnVarX, LnVarY,
      LnVarBad, LnBlank, LnComment }

\* values of a `x:<value>` line: every string of up to MaxValueLen
\* characters of ValueAlphabet, and the longer literals
ValueAlphabet == {" ", ",", "\"", "1", ".", "a", ":", "{", "}", "-", "e"}

LongValues ==
    { LitTrue, LitFalse, LitInf, LitNan, LitInfinity,
      <<" ", "\"", "t", "r", "u", "e", "\"", ",">>,
      <<" ", "\"", "a", ":", "b", "\"">>,
      <<" ", "-", "I", "n", "f">>,
      <<" ", "1", "0", "0", ".", "5", ",">>,
      <<" ", "n", "o", "t", "_", "v", "a", "l", "i", "d">>,
      <<" ", "5", ",", ",">>,
      <<" ", "T", "R", "U", "E">> }

Values == SeqsUpTo(ValueAlphabet, MaxValueLen) \cup LongValues

\* a local block that holds the one line `x:<value>`
OneLineBlock(v) == <<LnLocalOpen, <<"x", ":">> \o v, LnClose>>

LnVarX2 == <<"x", ":", " ", "2">>

\* the lines of well-formed blocks, with two declarations of x
BlockLines ==
    { LnGlobalOpen, LnLocalOpen, LnClose, LnVarX, LnVarX2, LnVarY }

\* a global block and a local block, as in test_parse_both_variable_types
BothBlocksText ==
    << LnBlank, LnGlobalOpen, LnVarX, LnClose, LnBlank, LnLocalOpen,
       LnVarX2, LnClose >>

\* two closed local blocks that both declare x
TwoLocalBlocksText ==
    << LnLocalOpen, LnVarX, LnClose, LnLocalOpen, LnVarX2, LnVarY, LnClose >>

\* a block line without a colon
NoColonText == <<LnLocalOpen, LnTextX, LnClose>>

LnCommentDollar == <<"#", " ", "c", "o", "s", "t", " ", "$", "5">>

LnCommentKey == <<"#", " ", "$", "a", ":", " ", "1">>

\* comment lines that hold `$` or `:`, in and around a local block
CommentLines ==
    { LnLocalOpen, LnClose, LnVarX, LnTextX, LnComment, LnCommentDollar,
      LnCommentKey }

VarTexts ==
    SeqsUpTo(VarLines, MaxLines) \cup {OneLineBlock(v) : v \in Values}
        \cup SeqsUpTo(BlockLines, MaxLines)
        \cup SeqsUpTo(CommentLines, MaxLines)
        \cup {BothBlocksText, TwoLocalBlocksText, NoColonText}

LnAt == <<"@">>

LnAtSpace == <<"@", " ", " ">>

\* headers without a name, among named headers and text
BareHeaderLines == {LnAt, LnAtSpace, LnNodeA, LnTextX}

LnInterp == <<"H", "i", " ", "$", "{", "n", "}", "!">>

LnCall == <<"!", "{", "f", "-", ">", " ", "r", ",", " ", "s", "}">>

\* node lines with markers, and the lines of a variable block
MarkupLines ==
    { LnNodeA, LnTextX, LnInterp, LnCall, LnLocalOpen, LnVarX, LnClose }

NodeTexts ==
    SeqsUpTo(NodeLines, MaxLines) \cup SeqsUpTo(MarkupLines, MaxLines)
        \cup SeqsUpTo(BareHeaderLines, MaxLines) \cup {EndToEndExample}

\* lines of metadata headers
LnTopicA == <<"#", " ", "T", "o", "p", "i", "c", ":", " ", "A">>

LnTopicB == <<"#", "T", "O", "P", "I", "C", ":", "B", " ">>

LnAuthor == <<"#", " ", "A", "u", "t", "h", "o", "r", ":", " ", "b">>

LnRequiredAB ==
    << "#", " ", "R", "e", "q", "u", "i", "r", "e", "d", ":", " ", "a",
       ".", "b", "d", "l", ",", "b", ".", "b", "d", "l" >>

LnNote == <<"#", " ", "n", "o", "t", "e">>

LnUnknown == <<"#", " ", "F", "o", "o", ":", " ", "x">>

LnSpace == <<" ">>

MetaLines ==
    { LnTopicA, LnTopicB, LnAuthor, LnRequiredAB, LnNote, LnUnknown,
      LnBlank, LnSpace, LnNodeA, LnTextX }

LnVersionColon ==
    << "#", " ", "V", "e", "r", "s", "i", "o", "n", ":", " ", "1", ":",
       "2" >>

LnDescription ==
    << "#", " ", "d", "e", "s", "c", "r", "i", "p", "t", "i", "o", "n",
       " ", ":", " ", "d" >>

LnRequiredEmpty == <<"#", " ", "R", "e", "q", "u", "i", "r", "e", "d", ":">>

LnRequiredDup ==
    << "#", " ", "r", "e", "q", "u", "i", "r", "e", "d", ":", " ", "a",
       ".", "b", "d", "l", ",", " ", ",", "a", ".", "b", "d", "l" >>

\* header lines whose value holds colons or commas
ValueLines ==
    { LnVersionColon, LnDescription, LnRequiredEmpty, LnRequiredDup,
      LnRequiredAB, LnTopicA, LnBlank, LnNodeA }

MetaTexts ==
    SeqsUpTo(MetaLines, MaxLines) \cup SeqsUpTo(ValueLines, MaxLines)
        \cup {EndToEndExample}

\* ------------------------------------------------------------------------
\* validate_dependencies on a declared list
\* ------------------------------------------------------------------------
InitDeps ==
    /\ pc = "ready"
    /\ content = <<>>
    /\ dependencies \in SeqsUpTo(DepNames, MaxDeps)
    /\ arg = <<>>
    /\ doc = BdlDocument_new
    /\ result = NoResult

ValidateDependencies ==
    /\ pc = "ready"
    /\ result' = validate_dependencies(dependencies)
    /\ pc' = "done"
    /\ UNCHANGED <<content, dependencies, arg, doc>>

NextDeps == ValidateDependencies

SpecDeps == InitDeps /\ [][NextDeps]_vars

\* ------------------------------------------------------------------------
\* validate_file_transfer of one file against a dependency set
\* ------------------------------------------------------------------------
InitTransfer ==
    /\ pc = "ready"
    /\ content = <<>>
    /\ dependencies \in SUBSET DepNames
    /\ arg \in DepNames
    /\ doc = BdlDocument_new
    /\ result = NoResult

ValidateFileTransfer ==
    /\ pc = "ready"
    /\ result' = validate_file_transfer(arg, dependencies)
    /\ pc' = "done"
    /\ UNCHANGED <<content, dependencies, arg, doc>>

NextTransfer == ValidateFileTransfer

SpecTransfer == InitTransfer /\ [][NextTransfer]_vars

\* ------------------------------------------------------------------------
\* A document built incrementally with add_node
\* ------------------------------------------------------------------------
InitDoc ==
    /\ pc = "ready"
    /\ content = <<>>
    /\ dependencies = {}
    /\ arg = <<>>
    /\ doc = BdlDocument_new
    /\ result = NoResult

AddNode ==
    \E node \in DocNodes :
        LET r == add_node(doc, node)
        IN  /\ arg' = node
            /\ doc' = r.nodes
            /\ result' = r.result
            /\ UNCHANGED <<pc, content, dependencies>>

NextDoc == AddNode

SpecDoc == InitDoc /\ [][NextDoc]_vars

\* ------------------------------------------------------------------------
\* parse_nodes on a text and a dependency set
\* ------------------------------------------------------------------------
InitNodes ==
    /\ pc = "ready"
    /\ content \in NodeTexts
    /\ dependencies \in SUBSET {ShopBdl}
    /\ arg = <<>>
    /\ doc = BdlDocument_new
    /\ result = NoResult

ParseNodes ==
    /\ pc = "ready"
    /\ result' = parse_nodes(content, dependencies)
    /\ pc' = "done"
    /\ UNCHANGED <<content, dependencies, arg, doc>>

NextNodes == ParseNodes

SpecNodes == InitNodes /\ [][NextNodes]_vars

\* ------------------------------------------------------------------------
\* parse_variables on a text
\* ------------------------------------------------------------------------
InitVars ==
    /\ pc = "ready"
    /\ content \in VarTexts
    /\ dependencies = {}
    /\ arg = <<>>
    /\ doc = BdlDocument_new
    /\ result = NoResult

ParseVariables ==
    /\ pc = "ready"
    /\ result' = parse_variables(content)
    /\ pc' = "done"
    /\ UNCHANGED <<content, dependencies, arg, doc>>

NextVars == ParseVariables

SpecVars == InitVars /\ [][NextVars]_vars

\* ------------------------------------------------------------------------
\* parse_metadata on a text
\* ------------------------------------------------------------------------
InitMeta ==
    /\ pc = "ready"
    /\ content \in MetaTexts
    /\ dependencies = {}
    /\ arg = <<>>
    /\ doc = BdlDocument_new
    /\ result = NoResult

ParseMetadata ==
    /\ pc = "ready"
    /\ result' = parse_metadata(content)
    /\ pc' = "done"
    /\ UNCHANGED <<content, dependencies, arg, doc>>

NextMeta == ParseMetadata

SpecMeta == InitMeta /\ [][NextMeta]_vars

\* ------------------------------------------------------------------------
\* Properties
\* ------------------------------------------------------------------------
Range(f) == {f[i] : i \in DOMAIN f}

\* --- how a text reads, line by line -------------------------------------
IsHeaderLine(raw) == StartsWith(Trim(raw), <<"@">>)

HeaderName(raw) == Trim(Tail(Trim(raw)))

IsOptionLine(raw) ==
    StartsWith(Trim(raw), <<"{">>) \/ StartsWith(Trim(raw), <<"?", "{">>)

IsBlankOrComment(raw) == Trim(raw) = <<>> \/ StartsWith(Trim(raw), <<"#">>)

NoOptionLines(text) == \A i \in 1..Len(text) : ~IsOptionLine(text[i])

HasDuplicateHeaders(text) ==
    \E i, j \in 1..Len(text) :
        /\ i < j
        /\ IsHeaderLine(text[i])
        /\ IsHeaderLine(text[j])
        /\ HeaderName(text[i]) = HeaderName(text[j])

\* the lines between the header at h and the next header or end of input
BodyOf(text, h) ==
    LET later == {j \in (h + 1)..Len(text) : IsHeaderLine(text[j])}
        stop  == IF later = {} THEN Len(text) + 1
                 ELSE CHOOSE j \in later : \A k \in later : j <= k
    IN  SubSeq(text, h + 1, stop - 1)

FlushRun(run) == IF run = <<>> THEN <<>> ELSE <<Text(Join(run, <<"\n">>))>>

\* one Text per maximal run of plain lines of a node body
RECURSIVE CoalescedRuns(_, _)
CoalescedRuns(body, run) ==
    IF body = <<>> THEN FlushRun(run)
    ELSE IF IsBlankOrComment(Head(body)) \/ IsOptionLine(Head(body))
    THEN FlushRun(run) \o CoalescedRuns(Tail(body), <<>>)
    ELSE CoalescedRuns(Tail(body), Append(run, Trim(Head(body))))

OptionLinesOf(body) == {i \in 1..Len(body) : IsOptionLine(body[i])}

\* C1: a text without option lines in which two node headers have the same
\* trimmed name makes parse_nodes return NodeError, whatever lies between
\* the two headers; no mapping is returned.
C1_DuplicateNodeNames ==
    (pc = "done" /\ NoOptionLines(content) /\ HasDuplicateHeaders(content))
        => (result.kind = "err" /\ result.variant = "NodeError")

\* the duplicate is the fourth line, written with other spacing than the
\* first, with another node and a content line in between
C1_Witness ==
    /\ pc = "done"
    /\ Len(content) = 4
    /\ IsHeaderLine(content[1])
    /\ IsHeaderLine(content[2])
    /\ HeaderName(content[2]) # HeaderName(content[1])
    /\ ~IsHeaderLine(content[3])
    /\ ~IsBlankOrComment(content[3])
    /\ ~IsOptionLine(content[3])
    /\ IsHeaderLine(content[4])
    /\ content[4] # content[1]
    /\ HeaderName(content[4]) = HeaderName(content[1])
    /\ result.kind = "err"
    /\ result.variant = "NodeError"

\* C3: every maximal run of consecutive plain content lines of a node
\* becomes exactly one Text element, the run's trimmed lines joined with
\* line breaks; a body of two adjacent plain lines has content length 1.
C3_RunsCoalesced ==
    (pc = "done" /\ result.kind = "ok") =>
        \A h \in 1..Len(content) :
            IsHeaderLine(content[h]) =>
                result.value[HeaderName(content[h])].content
                    = CoalescedRuns(BodyOf(content, h), <<>>)

\* C4: parse_nodes ends by returning a value or one BdlError, also when a
\* node body holds a line that begins with `{` or `?{`.
C4_ReturnsValueOrError ==
    pc = "done" => result.kind \in {"ok", "err"}

KwContinue == <<"c", "o", "n", "t", "i", "n", "u", "e">>

ExpectedEndToEnd ==
    LET start == [name    |-> HeaderName(LnNodeStart),
                  content |-> <<Text(LnHello)>>,
                  options |-> << [keywords    |-> <<KwContinue>>,
                                  destination |-> [type |-> "Node",
                                                   name |-> HeaderName(LnNodeEnd)],
                                  condition   |-> None] >>]
        end   == [name    |-> HeaderName(LnNodeEnd),
                  content |-> <<Text(LnGoodbye)>>,
                  options |-> <<>>]
    IN  MapInsert(MapInsert(EmptyMap, start.name, start), end.name, end)

\* C5: each line of a node that begins with `{` or `?{` becomes one
\* BranchOption of that node, in source order; the end-to-end example
\* yields node start with one Text and one option to Node(end), and node
\* end with one Text and no option.
C5_OptionsParsed ==
    pc = "done" =>
        /\ content = EndToEndExample => result = Ok(ExpectedEndToEnd)
        /\ ~HasDuplicateHeaders(content) =>
              /\ result.kind = "ok"
              /\ \A h \in 1..Len(content) :
                    IsHeaderLine(content[h]) =>
                        Len(result.value[HeaderName(content[h])].options)
                            = Cardinality(OptionLinesOf(BodyOf(content, h)))

\* --- how a metadata header reads ----------------------------------------
SimpleKeys == {"topic", "description", "author", "version"}

KeyText(f) ==
    CASE f = "topic" -> KeyTopic
      [] f = "description" -> KeyDescription
      [] f = "author" -> KeyAuthor
      [] f = "version" -> KeyVersion

\* the line has the form `# K: V`
IsKeyValueLine(raw) ==
    StartsWith(Trim(raw), <<"#">>) /\ Contains(Trim(raw), ":")

LineKey(raw) ==
    ToLowercase(Trim(SplitOnce(Trim(TrimStartMatches(Trim(raw), "#")),
                               ":")[1]))

LineValue(raw) ==
    Trim(SplitOnce(Trim(TrimStartMatches(Trim(raw), "#")), ":")[2])

\* index of the first line with property P, or Len + 1
FirstLine(text, P(_)) ==
    LET hits == {i \in 1..Len(text) : P(text[i])}
    IN  IF hits = {} THEN Len(text) + 1
        ELSE CHOOSE i \in hits : \A k \in hits : i <= k

IsContentLine(raw) == Trim(raw) # <<>> /\ ~StartsWith(Trim(raw), <<"#">>)

IsBlankOrContentLine(raw) == Trim(raw) = <<>> \/ IsContentLine(raw)

\* field f of the Metadata when the header is the first `stop - 1` lines:
\* the value of the last `# f: V` line among them, absent without one
FieldOfHeader(text, stop, f) ==
    LET hits == {i \in 1..(stop - 1) :
                    IsKeyValueLine(text[i]) /\ LineKey(text[i]) = KeyText(f)}
    IN  IF hits = {} THEN None
        ELSE Some(LineValue(text[CHOOSE i \in hits : \A k \in hits : k <= i]))

\* C10 as stated: blank lines do not end the header scan, which stops only
\* at the first non-empty line that does not begin with `#`; a recognized
\* `# key: value` line after a blank line and before every such line is
\* recorded.
C10_BlankLinesDoNotTerminate ==
    pc = "done" =>
        /\ result.kind = "ok"
        /\ \A f \in SimpleKeys :
              result.value[f]
                  = FieldOfHeader(content, FirstLine(content, IsContentLine), f)

\* C10 as the code has it: the scan stops at the first line that, trimmed,
\* is empty or does not begin with `#`; a `# key: value` line is recorded
\* exactly when it precedes every such line, so one that follows a blank
\* line is not recorded.
C10_BlankLineTerminates ==
    pc = "done" =>
        /\ result.kind = "ok"
        /\ \A f \in SimpleKeys :
              result.value[f]
                  = FieldOfHeader(content,
                                  FirstLine(content, IsBlankOrContentLine), f)

\* a topic line, a blank line, then an author line before any content line:
\* the topic was recorded and the author was not
C10_Witness ==
    /\ pc = "done"
    /\ Len(content) >= 3
    /\ IsKeyValueLine(content[1]) /\ LineKey(content[1]) = KeyTopic
    /\ Trim(content[2]) = <<>>
    /\ IsKeyValueLine(content[3]) /\ LineKey(content[3]) = KeyAuthor
    /\ result.kind = "ok"
    /\ result.value.topic = Some(LineValue(content[1]))
    /\ result.value.author = None

\* C2: add_node with a name that is already a key returns NodeError and
\* leaves the node mapping as it was; with a new name it returns Ok and the
\* mapping gains exactly that entry, every other entry staying as it was.
C2_AddNodeRejectsDuplicates ==
    [][ LET name == arg'.name
        IN  /\ name \in DOMAIN doc =>
                  /\ result'.kind = "err"
                  /\ result'.variant = "NodeError"
                  /\ doc' = doc
            /\ name \notin DOMAIN doc =>
                  /\ result' = Ok(<<>>)
                  /\ DOMAIN doc' = (DOMAIN doc) \cup {name}
                  /\ doc'[name] = arg'
                  /\ \A k \in DOMAIN doc : doc'[k] = doc[k] ]_vars

\* a duplicate was rejected in a document that already holds two nodes, and
\* the stored node differs from the rejected one
C2_Witness ==
    /\ result.kind = "err"
    /\ Cardinality(DOMAIN doc) >= 2
    /\ arg.name \in DOMAIN doc
    /\ doc[arg.name] # arg

\* C6: a text with a second line that starts with `$global_vars:` makes
\* parse_variables return ParseError, whether or not the first block was
\* closed, was empty or was followed by local blocks.
GlobalOpeners(text) ==
    {i \in 1..Len(text) : StartsWith(Trim(text[i]), GlobalVarsOpener)}

C6_DuplicateGlobalVars ==
    (pc = "done" /\ Cardinality(GlobalOpeners(content)) >= 2)
        => (result.kind = "err" /\ result.variant = "ParseError")

\* an empty global block was closed, a local block opened, and the second
\* opener, written differently, was then rejected as a duplicate
C6_Witness ==
    /\ pc = "done"
    /\ Len(content) = 4
    /\ GlobalOpeners(content) = {1, 4}
    /\ content[1] # content[4]
    /\ content[2] = LnClose
    /\ content[3] = LnLocalOpen
    /\ result.kind = "err"
    /\ result.text = "Duplicate global variables declaration"

\* --- the classification of a value as the specification states it -------
\* the text after the first colon, without surrounding whitespace and
\* without trailing commas
StatedValue(line) ==
    Trim(TrimEndMatches(Trim(SplitOnce(line, ":")[2]), ","))

IsQuoted(v) == StartsWith(v, <<"\"">>) /\ EndsWith(v, <<"\"">>)

\* the text between one pair of surrounding quotes; stated only where the
\* pair is the value's only surrounding pair
HasOnePairOfQuotes(v) ==
    /\ Len(v) >= 2
    /\ ~IsQuoted(SubSeq(v, 2, Len(v) - 1))

IsDecimalNumber(v) ==
    /\ parse_f64(v).some
    /\ parse_f64(v).value.class = "finite"

\* C7: the value of a block line is classified quoted -> boolean -> number
\* -> empty -> error: a quoted value is a String without its surrounding
\* quotes, true/false a Boolean, a decimal number a Number, the empty string
\* or {} Empty, and every other value makes parse_variables return
\* ParseError.
C7_ValueClassification ==
    \A v \in Values :
        (pc = "done" /\ content = OneLineBlock(v)) =>
            LET sv    == StatedValue(content[2])
                isErr == /\ ~IsQuoted(sv)
                         /\ sv \notin {LitTrue, LitFalse}
                         /\ ~IsDecimalNumber(sv)
                         /\ sv \notin {<<>>, <<"{", "}">>}
                got   == result.value.local_vars[<<"x">>]
            IN  /\ isErr <=> result.kind = "err"
                /\ isErr => result.variant = "ParseError"
                /\ ~isErr =>
                      /\ DOMAIN result.value.local_vars = {<<"x">>}
                      /\ IsQuoted(sv) => got.type = "String"
                      /\ (IsQuoted(sv) /\ HasOnePairOfQuotes(sv)) =>
                            got = String(SubSeq(sv, 2, Len(sv) - 1))
                      /\ (~IsQuoted(sv) /\ sv \in {LitTrue, LitFalse}) =>
                            got = Boolean(sv = LitTrue)
                      /\ (~IsQuoted(sv) /\ IsDecimalNumber(sv)) =>
                            got = Number(parse_f64(sv).value)
                      /\ (~IsQuoted(sv) /\ sv \in {<<>>, <<"{", "}">>}) =>
                            got = Empty

\* C8: validate_dependencies returns Ok exactly when every name ends with
\* .bdl and no name occurs twice; the returned set then holds exactly the
\* names of the list and has the list's length; otherwise DependencyError.
C8_ValidateDependencies ==
    pc = "done" =>
        LET n     == Len(dependencies)
            valid == /\ \A i \in 1..n : EndsWith(dependencies[i], DotBdl)
                     /\ \A i, j \in 1..n :
                            i # j => dependencies[i] # dependencies[j]
        IN  /\ result.kind = "ok" <=> valid
            /\ valid => /\ result.value = Range(dependencies)
                        /\ Cardinality(result.value) = n
            /\ ~valid => /\ result.kind = "err"
                         /\ result.variant = "DependencyError"

\* a list of three well-formed names whose first and third are equal was
\* rejected
C8_Witness ==
    /\ pc = "done"
    /\ Len(dependencies) = 3
    /\ \A i \in 1..3 : EndsWith(dependencies[i], DotBdl)
    /\ dependencies[1] = dependencies[3]
    /\ dependencies[1] # dependencies[2]
    /\ result.kind = "err"

\* C9: validate_file_transfer returns Ok exactly when the file ends with
\* .bdl and is in the set; a wrong extension is reported as such even when
\* the name is in the set, a well-formed name outside the set is reported
\* as undeclared; the set is left as it was.
C9_ValidateFileTransfer ==
    [][ (pc = "ready" /\ pc' = "done") =>
          LET ext == EndsWith(arg, DotBdl)
              mem == arg \in dependencies
          IN  /\ result'.kind = "ok" <=> (ext /\ mem)
              /\ ~ext =>
                    /\ result'.kind = "err"
                    /\ result'.variant = "DependencyError"
                    /\ result'.text = "Invalid dependency file extension: "
              /\ (ext /\ ~mem) =>
                    /\ result'.kind = "err"
                    /\ result'.variant = "DependencyError"
                    /\ result'.text = "Undeclared dependency: "
              /\ dependencies' = dependencies ]_vars

\* a name without the extension that is a member of the set was rejected
C9_Witness ==
    /\ pc = "done"
    /\ ~EndsWith(arg, DotBdl)
    /\ arg \in dependencies
    /\ result.kind = "err"

\* C11: once a non-empty line that does not begin with `#` has been seen,
\* no later line changes the result: the Metadata of a text is the Metadata
\* of the text cut just before its first such line, also when later lines
\* have the form `# key: value` with a recognized key.
C11_NothingAfterFirstContentLine ==
    (pc = "done" /\ \E i \in 1..Len(content) : IsContentLine(content[i])) =>
        result = parse_metadata(
                     SubSeq(content, 1,
                            FirstLine(content, IsContentLine) - 1))

\* a topic line, a content line, then an author line: the topic was
\* recorded and the author line after the content line was not
C11_Witness ==
    /\ pc = "done"
    /\ Len(content) >= 3
    /\ IsKeyValueLine(content[1]) /\ LineKey(content[1]) = KeyTopic
    /\ IsContentLine(content[2])
    /\ IsKeyValueLine(content[3]) /\ LineKey(content[3]) = KeyAuthor
    /\ result.kind = "ok"
    /\ result.value.topic = Some(LineValue(content[1]))
    /\ result.value.author = None

\* --- how the variable blocks of a text read -----------------------------
\* what a line is to the block scan: skipped, an opener, a closing line or
\* an entry
\* no comment line of the text holds a `$`
NoDollarComments(text) ==
    \A i \in 1..Len(text) :
        ~(StartsWith(Trim(text[i]), <<"#">>) /\ Contains(Trim(text[i]), "$"))

VarLineClass(raw) ==
    LET t == Trim(raw)
    IN  IF t = <<>> \/ (StartsWith(t, <<"#">>) /\ ~Contains(t, "$"))
        THEN "skip"
        ELSE IF StartsWith(t, GlobalVarsOpener) THEN "global"
        ELSE IF StartsWith(t, LocalVarsOpener) THEN "local"
        ELSE IF t = <<"}">> THEN "close"
        ELSE "entry"

\* the block line i lies in: that of the nearest opener before it, "none"
\* when a closing line is nearer or no opener precedes
BlockAt(text, i) ==
    LET marks == {j \in 1..(i - 1) :
                     VarLineClass(text[j]) \in {"global", "local", "close"}}
    IN  IF marks = {} THEN "none"
        ELSE LET j == CHOOSE m \in marks : \A k \in marks : k <= m
             IN  IF VarLineClass(text[j]) = "close" THEN "none"
                 ELSE VarLineClass(text[j])

EntriesIn(text, block) ==
    {i \in 1..Len(text) :
        VarLineClass(text[i]) = "entry" /\ BlockAt(text, i) = block}

EntryKey(raw) == Trim(SplitOnce(Trim(raw), ":")[1])

KeysIn(text, block) == {EntryKey(text[i]) : i \in EntriesIn(text, block)}

\* C12: the global mapping is present exactly when the text has a
\* `$global_vars:` opener line, an opener without entries giving a present,
\* empty mapping and a text with only local blocks an absent one; the keys
\* of a global block go only into the global mapping and those of a local
\* block only into the local mapping.
C12_GlobalPresenceAndSeparation ==
    (pc = "done" /\ result.kind = "ok" /\ NoDollarComments(content)) =>
        /\ result.value.global_vars.some <=> GlobalOpeners(content) # {}
        /\ result.value.global_vars.some =>
              DOMAIN result.value.global_vars.value = KeysIn(content, "global")
        /\ DOMAIN result.value.local_vars = KeysIn(content, "local")

\* a global block that declares x and a local block that declares y: two
\* mappings with different key sets
C12_Witness ==
    /\ pc = "done"
    /\ result.kind = "ok"
    /\ KeysIn(content, "global") = {<<"x">>}
    /\ KeysIn(content, "local") = {<<"y">>}
    /\ result.value.global_vars.some
    /\ DOMAIN result.value.global_vars.value = {<<"x">>}
    /\ DOMAIN result.value.local_vars = {<<"y">>}

\* --- markers and variable blocks in node bodies --------------------------
\* sub occurs in s
ContainsSeq(s, sub) ==
    \E i \in 1..(Len(s) - Len(sub) + 1) :
        SubSeq(s, i, i + Len(sub) - 1) = sub

HasMarker(s) == ContainsSeq(s, <<"$", "{">>) \/ ContainsSeq(s, <<"!", "{">>)

\* the text has no `${..}` or `!{..}` marker and opens no variable block
NoMarkersOrBlocks(text) ==
    \A i \in 1..Len(text) :
        /\ ~HasMarker(text[i])
        /\ VarLineClass(text[i]) \notin {"global", "local"}

\* --- what a node holds, line by line ------------------------------------
HeaderLines(text) == {h \in 1..Len(text) : IsHeaderLine(text[h])}

\* the trimmed lines of a body that are neither blank, comment nor option
RECURSIVE PlainLines(_)
PlainLines(body) ==
    IF body = <<>> THEN <<>>
    ELSE IF IsBlankOrComment(Head(body)) \/ IsOptionLine(Head(body))
    THEN PlainLines(Tail(body))
    ELSE <<Trim(Head(body))>> \o PlainLines(Tail(body))

\* the lines of the Text elements of a content sequence, in order
RECURSIVE ContentLines(_)
ContentLines(elements) ==
    IF elements = <<>> THEN <<>>
    ELSE Split(Head(elements).text, "\n") \o ContentLines(Tail(elements))

\* C13: for a text without option lines, markers or variable blocks whose
\* headers have pairwise distinct, non-empty names, parse_nodes returns one node per header line, stored
\* under its trimmed name; a node holds the content lines between its header
\* and the next one, lines before the first header belong to no node, a
\* header followed at once by a header or by end of input gives an empty
\* node, and the node open at end of input is returned too.
C13_OneNodePerHeader ==
    (/\ pc = "done"
     /\ NoOptionLines(content)
     /\ NoMarkersOrBlocks(content)
     /\ \A h \in HeaderLines(content) : HeaderName(content[h]) # <<>>
     /\ ~HasDuplicateHeaders(content))
        => /\ result.kind = "ok"
           /\ DOMAIN result.value
                  = {HeaderName(content[h]) : h \in HeaderLines(content)}
           /\ Cardinality(DOMAIN result.value)
                  = Cardinality(HeaderLines(content))
           /\ \A h \in HeaderLines(content) :
                 LET node == result.value[HeaderName(content[h])]
                 IN  /\ node.name = HeaderName(content[h])
                     /\ node.options = <<>>
                     /\ \A k \in 1..Len(node.content) :
                            node.content[k].type = "Text"
                     /\ ContentLines(node.content)
                            = PlainLines(BodyOf(content, h))

\* a content line before the first header, a header followed at once by a
\* second header, and a content line as the last line of the text
C13_Witness ==
    /\ pc = "done"
    /\ Len(content) = 4
    /\ ~IsHeaderLine(content[1]) /\ ~IsBlankOrComment(content[1])
    /\ ~IsOptionLine(content[1])
    /\ IsHeaderLine(content[2])
    /\ IsHeaderLine(content[3])
    /\ ~IsHeaderLine(content[4]) /\ ~IsBlankOrComment(content[4])
    /\ ~IsOptionLine(content[4])
    /\ result.kind = "ok"
    /\ Cardinality(DOMAIN result.value) = 2
    /\ result.value[HeaderName(content[2])].content = <<>>
    /\ Len(result.value[HeaderName(content[3])].content) = 1

\* --- several local blocks ------------------------------------------------
\* the entry lines of the blocks are all accepted as declarations and the
\* text has at most one global opener
AllEntriesAccepted(text) ==
    /\ Cardinality(GlobalOpeners(text)) <= 1
    /\ NoDollarComments(text)
    /\ \A i \in EntriesIn(text, "global") \cup EntriesIn(text, "local") :
           parse_variable_line(Trim(text[i])).kind = "ok"

\* the value declared on an accepted entry line
EntryValue(raw) == parse_variable_line(Trim(raw)).value.value[2]

\* the last line of a local block that declares key
LastLocalEntry(text, key) ==
    CHOOSE i \in EntriesIn(text, "local") :
        /\ EntryKey(text[i]) = key
        /\ \A j \in EntriesIn(text, "local") :
               EntryKey(text[j]) = key => j <= i

\* C14: when every entry line of the text is an accepted declaration,
\* parse_variables raises no error and returns one local mapping with the
\* keys of all `$local_vars` blocks; a key declared more than once, in one
\* block or in several, holds the value of its last declaration.
C14_LocalBlocksAccumulate ==
    (pc = "done" /\ AllEntriesAccepted(content))
        => /\ result.kind = "ok"
           /\ DOMAIN result.value.local_vars = KeysIn(content, "local")
           /\ \A key \in KeysIn(content, "local") :
                  result.value.local_vars[key]
                      = EntryValue(content[LastLocalEntry(content, key)])

\* two local blocks that declare the same key with different values, and
\* the mapping holds the later one
C14_Witness ==
    /\ pc = "done"
    /\ result.kind = "ok"
    /\ \E i, j \in EntriesIn(content, "local") :
          /\ i < j
          /\ \E c \in (i + 1)..(j - 1) : VarLineClass(content[c]) = "close"
          /\ EntryKey(content[i]) = EntryKey(content[j])
          /\ EntryValue(content[i]) # EntryValue(content[j])
          /\ j = LastLocalEntry(content, EntryKey(content[j]))
          /\ result.value.local_vars[EntryKey(content[j])]
                 = EntryValue(content[j])

\* --- the effect of one header line --------------------------------------
\* the header: the lines before the first blank or content line
HeaderEnd(text) == FirstLine(text, IsBlankOrContentLine) - 1

\* position of the first colon of s, 0 without one
FirstColon(s) ==
    LET hits == {i \in 1..Len(s) : s[i] = ":"}
    IN  IF hits = {} THEN 0
        ELSE CHOOSE i \in hits : \A k \in hits : i <= k

\* K and V of a line `# K: V`: the text between the `#` and the first colon,
\* and all the text after that colon
KeyBeforeFirstColon(raw) ==
    LET t == Tail(Trim(raw))
    IN  ToLowercase(Trim(SubSeq(t, 1, FirstColon(t) - 1)))

ValueAfterFirstColon(raw) ==
    LET t == Tail(Trim(raw))
    IN  Trim(SubSeq(t, FirstColon(t) + 1, Len(t)))

\* the Metadata of the header without its last line
MetadataBeforeLastLine(text) ==
    parse_metadata(SubSeq(text, 1, HeaderEnd(text) - 1)).value

\* C15: parse_metadata never returns an error.  Without header lines every
\* field is absent.  The last header line `# K: V`, split at its first
\* colon, sets the field K names (topic, description, author or version,
\* in any case, trimmed) to V trimmed and leaves the other fields as the
\* lines before it made them; a line with another key or without a colon
\* leaves all four fields unchanged.
C15_HeaderLineEffect ==
    pc = "done" =>
        /\ result.kind = "ok"
        /\ \A f \in SimpleKeys :
              result.value[f] =
                  IF HeaderEnd(content) = 0 THEN None
                  ELSE LET line == content[HeaderEnd(content)]
                       IN  IF /\ FirstColon(Tail(Trim(line))) # 0
                              /\ KeyBeforeFirstColon(line) = KeyText(f)
                           THEN Some(ValueAfterFirstColon(line))
                           ELSE MetadataBeforeLastLine(content)[f]

\* a topic line, then a version line whose value holds a colon, then a
\* required line: topic and version are set, the version
\* keeps its colon, the other fields are absent
C15_Witness ==
    /\ pc = "done"
    /\ content = <<LnTopicA, LnVersionColon, LnRequiredAB>>
    /\ result.kind = "ok"
    /\ result.value.topic = Some(<<"A">>)
    /\ result.value.version = Some(<<"1", ":", "2">>)
    /\ result.value.author = None
    /\ result.value.description = None

\* --- the required list -----------------------------------------------------
\* the positions that bound the comma-separated segments of v
SegmentCuts(v) == {0, Len(v) + 1} \cup {i \in 1..Len(v) : v[i] = ","}

\* the k-th cut, counted from 0
Cut(v, k) ==
    CHOOSE p \in SegmentCuts(v) :
        Cardinality({q \in SegmentCuts(v) : q < p}) = k

\* the segments of v, each trimmed: one more than v has commas
SegmentsOf(v) ==
    [k \in 1..(Cardinality(SegmentCuts(v)) - 1) |->
        Trim(SubSeq(v, Cut(v, k - 1) + 1, Cut(v, k) - 1))]

\* C16: the last header line `# Required: v` sets `required` to the
\* comma-separated segments of v, each trimmed, in order, duplicates and
\* empty segments kept, so that an empty v gives the one-element sequence
\* of the empty string; any other last header line leaves `required` as
\* the lines before it made it, and without header lines it is absent.
C16_RequiredSegments ==
    pc = "done" =>
        /\ result.kind = "ok"
        /\ result.value.required =
              IF HeaderEnd(content) = 0 THEN None
              ELSE LET line == content[HeaderEnd(content)]
                       t    == Tail(Trim(line))
                   IN  IF /\ FirstColon(t) # 0
                          /\ KeyBeforeFirstColon(line) = KeyRequired
                       THEN Some(SegmentsOf(SubSeq(t, FirstColon(t) + 1,
                                                   Len(t))))
                       ELSE MetadataBeforeLastLine(content).required

\* `# required: a.bdl, ,a.bdl` as the last header line, after a `# Required:`
\* line: three entries, the second empty and the third equal to the first
C16_Witness ==
    /\ pc = "done"
    /\ Len(content) >= 2
    /\ content[1] = LnRequiredEmpty
    /\ content[2] = LnRequiredDup
    /\ HeaderEnd(content) = 2
    /\ result.kind = "ok"
    /\ result.value.required.some
    /\ Len(result.value.required.value) = 3
    /\ result.value.required.value[2] = <<>>
    /\ result.value.required.value[1] = result.value.required.value[3]

\* --- the split of a block line -------------------------------------------
\* the text has one entry line, in a local block, and at most one global
\* opener
OneLocalEntry(text) ==
    /\ Cardinality(GlobalOpeners(text)) <= 1
    /\ EntriesIn(text, "global") = {}
    /\ Cardinality(EntriesIn(text, "local")) = 1

TheLocalEntry(text) ==
    Trim(text[CHOOSE i \in EntriesIn(text, "local") : TRUE])

\* C17: a block line is split at its first colon into key and value: a
\* line without a colon makes parse_variables return ParseError, and a line
\* whose value is a quoted string that holds a colon is accepted as the
\* entry key -> String(text between the quotes).
C17_SplitAtFirstColon ==
    (pc = "done" /\ OneLocalEntry(content)) =>
        LET line == TheLocalEntry(content)
        IN  /\ FirstColon(line) = 0 =>
                  (result.kind = "err" /\ result.variant = "ParseError")
            /\ FirstColon(line) # 0 =>
                  LET key == Trim(SubSeq(line, 1, FirstColon(line) - 1))
                      sv  == StatedValue(line)
                  IN  (/\ IsQuoted(sv)
                       /\ HasOnePairOfQuotes(sv)
                       /\ FirstColon(sv) # 0)
                          => /\ result.kind = "ok"
                             /\ result.value.local_vars
                                    = key :> String(SubSeq(sv, 2,
                                                           Len(sv) - 1))

\* C18: the markers of a content line become elements of their own, in
\* source order between the Text elements of the literal text around them:
\* no Text element of a returned node holds `${` or `!{`, the line
\* `Hi ${n}!` gives Text, Variable(n), Text and the line `!{f-> r, s}` gives
\* the one element FunctionCall(f, <<r, s>>).
C18_MarkersExtracted ==
    (pc = "done" /\ result.kind = "ok") =>
        \A h \in HeaderLines(content) :
            LET node == result.value[HeaderName(content[h])]
            IN  /\ \A k \in 1..Len(node.content) :
                       node.content[k].type = "Text"
                           => ~HasMarker(node.content[k].text)
                /\ BodyOf(content, h) = <<LnInterp>> =>
                       node.content
                           = << Text(<<"H", "i", " ">>), Variable(<<"n">>),
                                Text(<<"!">>) >>
                /\ BodyOf(content, h) = <<LnCall>> =>
                       node.content
                           = << FunctionCall(<<"f">>, << <<"r">>, <<"s">> >>) >>

\* --- variable blocks after a node header -----------------------------------
\* line i belongs to a variable block: an opener, or an entry or closing
\* line of an open block
IsBlockConstruct(text, i) ==
    \/ VarLineClass(text[i]) \in {"global", "local"}
    \/ /\ VarLineClass(text[i]) \in {"entry", "close"}
       /\ BlockAt(text, i) \in {"global", "local"}

\* the trimmed content lines among lines i..stop of the text, the lines of
\* variable blocks left out
RECURSIVE LinesOutsideBlocks(_, _, _)
LinesOutsideBlocks(text, i, stop) ==
    IF i > stop THEN <<>>
    ELSE IF \/ IsBlankOrComment(text[i])
            \/ IsOptionLine(text[i])
            \/ IsBlockConstruct(text, i)
    THEN LinesOutsideBlocks(text, i + 1, stop)
    ELSE <<Trim(text[i])>> \o LinesOutsideBlocks(text, i + 1, stop)

\* C19: the opener, entry and closing lines of a variable block never become
\* content or options of a node, also when the block follows a node header:
\* a node holds the content lines of its body that lie outside the blocks.
C19_BlocksSkipped ==
    (/\ pc = "done"
     /\ result.kind = "ok"
     /\ \A i \in HeaderLines(content) : ~IsBlockConstruct(content, i))
        => \A h \in HeaderLines(content) :
               LET node == result.value[HeaderName(content[h])]
               IN  /\ node.options = <<>>
                   /\ ContentLines(node.content)
                          = LinesOutsideBlocks(content, h + 1,
                                h + Len(BodyOf(content, h)))

\* --- commas around a value ---------------------------------------------------
\* the value of a `x:<v>` line after one optional trailing comma and the
\* whitespace around it are removed
ValueAfterOneComma(v) ==
    LET t == Trim(v)
    IN  IF EndsWith(t, <<",">>) THEN Trim(SubSeq(t, 1, Len(t) - 1)) ELSE t

\* C21: only one optional trailing comma is removed from a value before it
\* is classified: a value that still ends with a comma after that, or that
\* begins with a comma, makes parse_variables return ParseError, while a
\* decimal number followed by one comma is a Number.
C21_SingleTrailingComma ==
    \A v \in Values :
        (pc = "done" /\ content = OneLineBlock(v) /\ ~Contains(v, ":")) =>
            LET sv == ValueAfterOneComma(v)
            IN  /\ (StartsWith(sv, <<",">>) \/ EndsWith(sv, <<",">>)) =>
                      (result.kind = "err" /\ result.variant = "ParseError")
                /\ IsDecimalNumber(sv) =>
                      /\ result.kind = "ok"
                      /\ result.value.local_vars
                             = <<"x">> :> Number(parse_f64(sv).value)

\* --- NaN and infinity ----------------------------------------------------------
\* v is nan, inf or infinity in any letter case, with an optional sign
IsNanOrInfinityLiteral(v) ==
    LET body == IF StartsWith(v, <<"+">>) \/ StartsWith(v, <<"-">>)
                THEN Tail(v) ELSE v
    IN  ToLowercase(body) \in {LitNan, LitInf, LitInfinity}

\* C22: a value that is a NaN or infinity literal is not a Number and makes
\* parse_variables return ParseError; no Number of a returned mapping is
\* NaN or infinite.
C22_NoNanOrInfinity ==
    /\ \A v \in Values :
          (/\ pc = "done"
           /\ content = OneLineBlock(v)
           /\ IsNanOrInfinityLiteral(ValueAfterOneComma(v)))
              => (result.kind = "err" /\ result.variant = "ParseError")
    /\ (pc = "done" /\ result.kind = "ok") =>
          \A val \in Range(result.value.local_vars)
                        \cup (IF result.value.global_vars.some
                              THEN Range(result.value.global_vars.value)
                              ELSE {}) :
              val.type = "Number" => val.number.class = "finite"

\* --- the message of a ParseError ---------------------------------------------
MsgInvalidDeclaration ==
    << "I", "n", "v", "a", "l", "i", "d", " ", "v", "a", "r", "i", "a",
       "b", "l", "e", " ", "d", "e", "c", "l", "a", "r", "a", "t", "i",
       "o", "n", ":", " " >>

MsgInvalidValue ==
    << "I", "n", "v", "a", "l", "i", "d", " ", "v", "a", "l", "u", "e",
       " ", "f", "o", "r", "m", "a", "t", ":", " " >>

\* the characters of the message of an error raised for a block line
MessageOf(r) ==
    (IF r.text = "Invalid variable declaration: " THEN MsgInvalidDeclaration
     ELSE MsgInvalidValue) \o r.detail

\* C23: when parse_variables fails on the one entry line of a text, whether
\* for its colons or for its value, it returns a ParseError, and no mapping,
\* whose message holds the whole line, key and value.
C23_MessageHoldsLine ==
    (pc = "done" /\ OneLocalEntry(content) /\ result.kind = "err") =>
        /\ result.variant = "ParseError"
        /\ ContainsSeq(MessageOf(result), TheLocalEntry(content))

\* C24: every node of a mapping parse_nodes returns has a non-empty name,
\* and no node is stored under the empty string, also for a header line that
\* is `@` alone or `@` followed by whitespace.
C24_NodeNamesNonEmpty ==
    (pc = "done" /\ result.kind = "ok") =>
        \A key \in DOMAIN result.value :
            key # <<>> /\ result.value[key].name # <<>>

\* --- comments and lines outside blocks -----------------------------------------
IsCommentLine(raw) == StartsWith(Trim(raw), <<"#">>)

\* line i counts for the variables: it is no comment and is an opener or
\* lies inside an open block
CountsForVariables(text, i) ==
    /\ ~IsCommentLine(text[i])
    /\ \/ VarLineClass(text[i]) \in {"global", "local"}
       \/ BlockAt(text, i) \in {"global", "local"}

\* the lines i.. of the text that count for the variables
RECURSIVE LinesThatCount(_, _)
LinesThatCount(text, i) ==
    IF i > Len(text) THEN <<>>
    ELSE IF CountsForVariables(text, i)
    THEN <<text[i]>> \o LinesThatCount(text, i + 1)
    ELSE LinesThatCount(text, i + 1)

\* C25: a comment line inside an open block, whatever it holds, and a line
\* outside every block that is no opener add no entry and cause no error:
\* parse_variables returns what it returns for the text without them.
C25_CommentsAndOutsideLinesIgnored ==
    pc = "done" => result = parse_variables(LinesThatCount(content, 1))

====
